---- MODULE Spec2Model ----
(***************************************************************************)
(* fb_sender: the durable recipient queue (app/storage.py), the daily      *)
(* quota (app/profile_manager.py), the send worker                         *)
(* (app/automations/fb_worker.py) and the task engine (app/task_engine.py).*)
(*                                                                         *)
(* Time.  Every stored timestamp is kept as its offset from the current    *)
(* instant, t - now: 0 is "now", a negative value lies in the past, a      *)
(* positive one in the future.  The source's comparisons then read as in   *)
(* the code with now = 0.  Tick(d) lets d seconds pass by shifting every   *)
(* stored timestamp by -d; a timestamp that only takes part in comparisons *)
(* against now-relative cut-offs saturates once no comparison can tell it  *)
(* from an older one, which keeps the state space finite without putting a *)
(* horizon on time.                                                        *)
(*                                                                         *)
(* Strings are sequences of one-character strings.                         *)
(***************************************************************************)
EXTENDS Integers, Sequences, FiniteSets, TLC

VARIABLES
    uids,             \* table uids: sequence of rows, rowid = index
    uid_events,       \* table uid_events, per uid_id: sequence of event types
    daily_counters,   \* table daily_counters, per date_ymd: its row, or None
    today,            \* ProfileManager.today_local(): the local calendar day
    daily_limit,      \* ProfileManager.daily_limit: the profile's configured limit
    settings,         \* ProfileManager.settings: the retry settings loaded at start-up
    state,            \* TaskEngine.state
    state_reason,     \* TaskEngine.state_reason
    delay_timer,      \* TaskEngine.delay_timer: seconds left, or None
    cooldown_timer,   \* TaskEngine.cooldown_timer is active
    cooldown_remaining, \* TaskEngine.cooldown_remaining
    stack,            \* the nested _process_next_uid calls blocked in a send
    delivered,        \* the uid_ids the page really sent a message to (observer)
    was_terminal,     \* the uid_ids ever stored as SUCCESS or FAIL_PERM (observer)
    last_backoff,     \* per uid_id: the retry delay its last retryable result stored (observer)
    lease_tx,         \* the database connections of concurrent lease_next_uid callers
    report,           \* the lines of the last import and the ImportReport shown for them
    classified        \* the last failure reason a send ended with, and its classification

aux_vars == <<lease_tx, report, classified>>

vars == <<uids, uid_events, daily_counters, today, daily_limit, settings, state, state_reason,
          delay_timer, cooldown_timer, cooldown_remaining,
          stack, delivered, was_terminal, last_backoff, aux_vars>>

store_vars == <<uids, uid_events, daily_counters>>
profile_vars == <<today, daily_limit, settings>>
engine_vars == <<state, state_reason, delay_timer,
                 cooldown_timer, cooldown_remaining>>

-----------------------------------------------------------------------------
(* Bounds of the model *)

\* rows the uids table may hold
MaxUids == 2
\* nested sends (re-entrant _process_next_uid calls) that may be in flight
MaxDepth == 2
\* leases one recipient may take (attempts is unbounded in the code)
MaxAttempts == 3
\* force_retry calls over a run
MaxForceRetry == 1
\* seconds of one clock step
TickSec == 300
\* local midnights that may pass
MaxDays == 1
\* the largest daily_limit a profile is configured with
MaxDailyLimit == 2
\* lines in one imported text
MaxBatch == 2

(* Settings and profile: configuration read by ProfileManager *)
delay_between_uids_sec == 1
page_load_countdown_sec == 1
retry_max_attempts == settings.retry_max_attempts
retry_backoff_sec == settings.retry_backoff_sec

(* Program constants *)
stale_after_seconds == 300
BackoffCap == 120

-----------------------------------------------------------------------------
(* Values *)

None == {}
Some(x) == {x}
Get(o) == CHOOSE x \in o : TRUE

STATUS_FRESH == "FRESH"
STATUS_IN_PROGRESS == "IN_PROGRESS"
STATUS_SUCCESS == "SUCCESS"
STATUS_FAIL_RETRYABLE == "FAIL_RETRYABLE"
STATUS_FAIL_PERM == "FAIL_PERM"
TERMINAL_STATUSES == {STATUS_SUCCESS, STATUS_FAIL_PERM}
\* the rows of us in a terminal status
TerminalIds(us) == {i \in 1..Len(us) : us[i].status \in TERMINAL_STATUSES}

\* datetime.now(UTC) as an offset from the current instant
Now == 0

Min(a, b) == IF a <= b THEN a ELSE b
Max(a, b) == IF a >= b THEN a ELSE b

RECURSIVE Pow2(_)
Pow2(n) == IF n <= 0 THEN 1 ELSE 2 * Pow2(n - 1)

-----------------------------------------------------------------------------
(* Strings *)

Digits == {"0", "1", "2", "3", "4", "5", "6", "7", "8", "9"}
Whitespace == {" ", "\t", "\n", "\r", "\f"}
UpperToLower ==
    [c \in {"A", "B", "C", "D", "E", "F", "G", "H", "I", "J", "K", "L", "M", "N",
            "O", "P", "Q", "R", "S", "T", "U", "V", "W", "X", "Y", "Z"} |->
        CASE c = "A" -> "a" [] c = "B" -> "b" [] c = "C" -> "c" [] c = "D" -> "d"
          [] c = "E" -> "e" [] c = "F" -> "f" [] c = "G" -> "g" [] c = "H" -> "h"
          [] c = "I" -> "i" [] c = "J" -> "j" [] c = "K" -> "k" [] c = "L" -> "l"
          [] c = "M" -> "m" [] c = "N" -> "n" [] c = "O" -> "o" [] c = "P" -> "p"
          [] c = "Q" -> "q" [] c = "R" -> "r" [] c = "S" -> "s" [] c = "T" -> "t"
          [] c = "U" -> "u" [] c = "V" -> "v" [] c = "W" -> "w" [] c = "X" -> "x"
          [] c = "Y" -> "y" [] c = "Z" -> "z"]

\* str.lower()
Lower(s) == [i \in 1..Len(s) |-> IF s[i] \in DOMAIN UpperToLower
                                   THEN UpperToLower[s[i]] ELSE s[i]]

\* fault: a test for some digit instead of digits only
IsDigit_some(s) == \E i \in 1..Len(s) : s[i] \in Digits

\* str.isdigit()
IsDigit(s) == Len(s) > 0 /\ \A i \in 1..Len(s) : s[i] \in Digits

\* str.startswith(p)
StartsWith(s, p) == Len(p) <= Len(s) /\ SubSeq(s, 1, Len(p)) = p

\* p in s
Contains(s, p) == \E i \in 1..(Len(s) - Len(p) + 1) : SubSeq(s, i, i + Len(p) - 1) = p

\* str.strip()
Strip(s) ==
    LET keep == {i \in 1..Len(s) : s[i] \notin Whitespace}
    IN  IF keep = {} THEN <<>>
        ELSE SubSeq(s, CHOOSE i \in keep : \A j \in keep : i <= j,
                       CHOOSE i \in keep : \A j \in keep : i >= j)

\* str.rstrip(c)
RStrip(s, c) ==
    LET keep == {i \in 1..Len(s) : s[i] # c}
    IN  IF keep = {} THEN <<>>
        ELSE SubSeq(s, 1, CHOOSE i \in keep : \A j \in keep : i >= j)

\* str.split(c): the pieces between the occurrences of c
RECURSIVE Split(_, _)
Split(s, c) ==
    LET at == {i \in 1..Len(s) : s[i] = c}
    IN  IF at = {} THEN <<s>>
        ELSE LET k == CHOOSE i \in at : \A j \in at : i <= j
             IN  <<SubSeq(s, 1, k - 1)>> \o Split(SubSeq(s, k + 1, Len(s)), c)

\* str.split(c, 1): at most two pieces
Split1(s, c) ==
    LET at == {i \in 1..Len(s) : s[i] = c}
    IN  IF at = {} THEN <<s>>
        ELSE LET k == CHOOSE i \in at : \A j \in at : i <= j
             IN  <<SubSeq(s, 1, k - 1), SubSeq(s, k + 1, Len(s))>>

-----------------------------------------------------------------------------
(* Recipient store: import *)

FACEBOOK_COM == <<"f", "a", "c", "e", "b", "o", "o", "k", ".", "c", "o", "m">>
WWW_FACEBOOK_COM == <<"w", "w", "w", ".">> \o FACEBOOK_COM
HTTPS_PREFIX == <<"h", "t", "t", "p", "s", ":", "/", "/">>
HTTP_PREFIX == <<"h", "t", "t", "p", ":", "/", "/">>
PROFILE_PHP == <<"p", "r", "o", "f", "i", "l", "e", ".", "p", "h", "p">>
ID_EQ == <<"i", "d", "=">>
AllowedChars ==
    {"a", "b", "c", "d", "e", "f", "g", "h", "i", "j", "k", "l", "m", "n", "o", "p",
     "q", "r", "s", "t", "u", "v", "w", "x", "y", "z"} \cup Digits \cup {".", "_"}

Normalized(key) == [normalized |-> Some(key), reason |-> None]
Rejected(why) == [normalized |-> None, reason |-> Some(why)]

\* the facebook.com branch of normalize_uid, on the stripped value
NormalizeUrl(stripped) ==
    LET v1 == IF StartsWith(stripped, HTTPS_PREFIX)
                THEN SubSeq(stripped, Len(HTTPS_PREFIX) + 1, Len(stripped))
              ELSE IF StartsWith(stripped, HTTP_PREFIX)
                THEN SubSeq(stripped, Len(HTTP_PREFIX) + 1, Len(stripped))
              ELSE stripped
        value == RStrip(v1, "/")
        pq == Split1(value, "?")
        path == pq[1]
        query == IF Len(pq) = 2 THEN pq[2] ELSE <<>>
    IN  IF Contains(path, PROFILE_PHP) /\ Contains(query, ID_EQ)
        THEN LET parts == Split(query, "&")
                 cands == SelectSeq(parts,
                              LAMBDA part : StartsWith(part, ID_EQ)
                                  /\ IsDigit(Split1(part, "=")[2]))
             IN  IF cands # <<>> THEN Normalized(Split1(cands[1], "=")[2])
                 ELSE Rejected("Could not parse profile id")
        ELSE LET path_parts == SelectSeq(Split(path, "/"),
                                   LAMBDA q : q # <<>> /\ q # WWW_FACEBOOK_COM)
             IN  IF path_parts = <<>> THEN Rejected("Invalid Facebook URL")
                 ELSE Normalized(path_parts[Len(path_parts)])

\* normalize_uid(raw) -> (normalized, reason)
normalize_uid(raw) ==
    IF raw = <<>> THEN Rejected("Empty line")
    ELSE LET value == Strip(raw)
         IN  IF value = <<>> THEN Rejected("Empty line")
             ELSE IF Contains(Lower(value), FACEBOOK_COM) THEN NormalizeUrl(value)
             ELSE IF IsDigit(value) THEN Normalized(value)
             ELSE IF {Lower(value)[i] : i \in 1..Len(value)} \subseteq AllowedChars
               THEN Normalized(value)
             ELSE Rejected("Unsupported UID format")

\* lines of an import file or of the import text box: identifiers, the same
\* identifier spelled in other ways, a blank line, comment lines, and lines
\* that are no identifier
LINE ==
    [id |-> <<"1">>,
     id_spaced |-> <<" ", "1">>,
     profile_url |-> <<"f", "a", "c", "e", "b", "o", "o", "k", ".", "c", "o", "m", "/", "p", "r", "o", "f", "i", "l", "e", ".", "p", "h", "p", "?", "i", "d", "=", "1">>,
     id_long |-> <<"0", "0", "7">>,
     profile_url_https |-> <<"h", "t", "t", "p", "s", ":", "/", "/", "w", "w", "w", ".", "f", "a", "c", "e", "b", "o", "o", "k", ".", "c", "o", "m", "/", "p", "r", "o", "f", "i", "l", "e", ".", "p", "h", "p", "?", "i", "d", "=", "0", "0", "7", "&", "r", "e", "f", "=", "x">>,
     comment |-> <<"#", "x">>,
     comment_url |-> <<"#", "f", "a", "c", "e", "b", "o", "o", "k", ".", "c", "o", "m", "/", "x">>,
     bad |-> <<"a", " ", "b">>,
     profile_url_bad |-> <<"f", "a", "c", "e", "b", "o", "o", "k", ".", "c", "o", "m", "/", "p", "r", "o", "f", "i", "l", "e", ".", "p", "h", "p", "?", "i", "d", "=", "1", "x">>,
     blank |-> <<"\n">>]
ImportLines ==
    {LINE.id, LINE.id_spaced, LINE.profile_url, LINE.id_long, LINE.profile_url_https,
     LINE.blank,
     LINE.comment, LINE.comment_url, LINE.bad, LINE.profile_url_bad}


\* normalize_uid on the lines of the model, computed once
normalize_line == [raw \in ImportLines \cup {<<"2">>} |-> normalize_uid(raw)]

\* a new row of table uids (storage.init_db schema, the INSERT of add_uids)
NewUid(id, raw, normalized, seen) ==
    [id |-> id, raw_input |-> Strip(raw), normalized_uid |-> normalized,
     status |-> STATUS_FRESH, attempts |-> 0,
     last_error_code |-> None, next_attempt_after |-> None,
     heartbeat_at |-> None, first_seen_at |-> seen]

\* fault: a table without the UNIQUE constraint
UniqueViolation_none(us, raw, key) == FALSE

\* fault: a constraint on the text as it was typed
UniqueViolation_on_raw(us, raw, key) ==
    \E i \in 1..Len(us) : us[i].raw_input = Strip(raw)

\* UNIQUE(profile_id, normalized_uid): the INSERT of (raw, key) into table us
\* raises sqlite3.IntegrityError
UniqueViolation(us, raw, key) ==
    \E i \in 1..Len(us) : us[i].normalized_uid = key

\* add_uids: the loop over the lines, from accumulator acc; every row of one
\* call gets the same first_seen_at
RECURSIVE AddLines(_, _, _)
AddLines(lines, seen, acc) ==
    IF lines = <<>> THEN acc
    ELSE LET raw == Head(lines)
             n == IF raw \in DOMAIN normalize_line THEN normalize_line[raw]
                  ELSE normalize_uid(raw)
         IN  IF n.normalized = None \/ Get(n.normalized) = <<>>
             THEN AddLines(Tail(lines), seen,
                      [acc EXCEPT !.invalid = Append(@, <<Strip(raw), Get(n.reason)>>)])
             ELSE IF UniqueViolation(acc.uids, raw, Get(n.normalized))
             THEN AddLines(Tail(lines), seen, [acc EXCEPT !.duplicates = @ + 1])
             ELSE AddLines(Tail(lines), seen,
                      [acc EXCEPT !.uids = Append(@, NewUid(Len(@) + 1, raw,
                                                    Get(n.normalized), seen)),
                                  !.events = Append(@, <<"QUEUE">>),
                                  !.added = @ + 1])

\* add_uids(profile_id, lines) -> ImportReport, with the tables after it
add_uids(us, evs, lines) ==
    AddLines(lines, Len(us),
             [uids |-> us, events |-> evs, added |-> 0, duplicates |-> 0,
              invalid |-> <<>>])

-----------------------------------------------------------------------------
(* Recipient store: daily counters *)

\* local calendar days the model tells apart
Days == 0..MaxDays

\* fault: INSERT OR REPLACE, which resets the row of a day that has one
ensure_daily_counter_replace(dc, date_ymd) ==
    [dc EXCEPT ![date_ymd] = Some([sent_success |-> 0, sent_fail |-> 0])]

\* fault: a new day's row starts from the counters of the day before
ensure_daily_counter_carry(dc, date_ymd) ==
    IF dc[date_ymd] # None THEN dc
    ELSE IF date_ymd - 1 \in DOMAIN dc /\ dc[date_ymd - 1] # None
      THEN [dc EXCEPT ![date_ymd] = dc[date_ymd - 1]]
    ELSE [dc EXCEPT ![date_ymd] = Some([sent_success |-> 0, sent_fail |-> 0])]

\* ensure_daily_counter: INSERT OR IGNORE the day's row
ensure_daily_counter(dc, date_ymd) ==
    IF dc[date_ymd] = None
    THEN [dc EXCEPT ![date_ymd] = Some([sent_success |-> 0, sent_fail |-> 0])]
    ELSE dc

\* get_daily_counter: the day's row, zeros when there is none
get_daily_counter(dc, date_ymd) ==
    IF dc[date_ymd] = None THEN [sent_success |-> 0, sent_fail |-> 0]
    ELSE Get(dc[date_ymd])

\* increment_daily: UPDATE of the day's row (no row, no change)
increment_daily(dc, date_ymd, success) ==
    IF dc[date_ymd] = None THEN dc
    ELSE IF success
      THEN [dc EXCEPT ![date_ymd] = Some([Get(@) EXCEPT !.sent_success = @ + 1])]
      ELSE [dc EXCEPT ![date_ymd] = Some([Get(@) EXCEPT !.sent_fail = @ + 1])]

-----------------------------------------------------------------------------
(* Recipient store: lease, recovery, completion *)

\* _record_event: INSERT INTO uid_events
record_event(evs, uid_id, event_type) ==
    [evs EXCEPT ![uid_id] = Append(@, event_type)]

\* fault: a heartbeat exactly as old as the threshold counts as stale
IsStale_inclusive(row) ==
    /\ row.status = STATUS_IN_PROGRESS
    /\ (row.heartbeat_at = None
        \/ Get(row.heartbeat_at) <= Now - stale_after_seconds)

\* the WHERE clause of reset_stale_in_progress
IsStale(row) ==
    /\ row.status = STATUS_IN_PROGRESS
    /\ (row.heartbeat_at = None
        \/ Get(row.heartbeat_at) < Now - stale_after_seconds)

StaleIds(us) == {i \in 1..Len(us) : IsStale(us[i])}

\* reset_stale_in_progress: the uids table after it
reset_stale_uids(us) ==
    [i \in 1..Len(us) |->
        IF IsStale(us[i])
        THEN [us[i] EXCEPT !.status = STATUS_FAIL_RETRYABLE,
                           !.last_error_code = Some("ENGINE_CRASH"),
                           !.next_attempt_after = None,
                           !.heartbeat_at = None]
        ELSE us[i]]

\* reset_stale_in_progress: the uid_events table after it
reset_stale_events(us, evs) ==
    [i \in 1..Len(us) |-> IF IsStale(us[i]) THEN Append(evs[i], "RECOVERED") ELSE evs[i]]

\* fault: a lease that does not look at next_attempt_after
Eligible_any_time(row) ==
    row.status \in {STATUS_FAIL_RETRYABLE, STATUS_FRESH}

\* the WHERE clause of lease_next_uid.  Timestamps are stored as the
\* isoformat() of UTC datetimes and compared as text; all of them carry the
\* same +00:00 offset, and isoformat() drops the fraction only when it is
\* zero ('+' sorts before '.'), so the text order is the time order.
Eligible(row) ==
    /\ row.status \in {STATUS_FAIL_RETRYABLE, STATUS_FRESH}
    /\ (row.status = STATUS_FRESH
        \/ row.next_attempt_after = None
        \/ Get(row.next_attempt_after) <= Now)

\* fault: an ORDER BY without the status class
LeaseClass_flat(row) == 0

\* the ORDER BY key of lease_next_uid
LeaseClass(row) == IF row.status = STATUS_FAIL_RETRYABLE THEN 0 ELSE 1

LeaseBefore(a, b) ==
    \/ LeaseClass(a) < LeaseClass(b)
    \/ LeaseClass(a) = LeaseClass(b) /\ a.first_seen_at < b.first_seen_at

\* the rows LIMIT 1 may return: SQL leaves the order of equal keys open
LeaseCandidates(us) ==
    {i \in 1..Len(us) :
        /\ Eligible(us[i])
        /\ \A j \in 1..Len(us) : Eligible(us[j]) => ~LeaseBefore(us[j], us[i])}

\* fault: a lease that does not count the attempt
lease_uid_uncounted(us, uid_id) ==
    [us EXCEPT ![uid_id] = [@ EXCEPT !.status = STATUS_IN_PROGRESS,
                                     !.heartbeat_at = Some(Now)]]

\* lease_next_uid: the UPDATE of the selected row
lease_uid(us, uid_id) ==
    [us EXCEPT ![uid_id] = [@ EXCEPT !.status = STATUS_IN_PROGRESS,
                                     !.attempts = @ + 1,
                                     !.heartbeat_at = Some(Now)]]

\* lease_next_uid: the UPDATE, with attempts computed from the row the
\* SELECT returned
lease_update(us, uid_id, attempts) ==
    [us EXCEPT ![uid_id] = [@ EXCEPT !.status = STATUS_IN_PROGRESS,
                                     !.attempts = attempts,
                                     !.heartbeat_at = Some(Now)]]

\* the processes calling lease_next_uid on the one database file
Callers == {1, 2}

\* fault: the statements run in autocommit mode, without BEGIN and COMMIT
LeaseSteps_autocommit == <<"SELECT", "UPDATE", "EVENT">>

\* the statements of lease_next_uid, in the order it executes them
LeaseSteps == <<"BEGIN IMMEDIATE", "SELECT", "UPDATE", "EVENT", "COMMIT">>

\* a connection outside a call
NoCall == [pc |-> 0, row |-> None, held |-> None]

\* no call is running and no transaction is open.  owner is the connection
\* holding the write lock of the database, w_uids and w_events are the
\* tables as its uncommitted transaction sees them
NoLeaseTx == [owner |-> None, w_uids |-> <<>>, w_events |-> <<>>,
              call |-> [c \in Callers |-> NoCall]]

\* the tables as connection c reads them: other connections see committed
\* rows only
tx_uids(c) == IF lease_tx.owner = Some(c) THEN lease_tx.w_uids ELSE uids
tx_events(c) == IF lease_tx.owner = Some(c) THEN lease_tx.w_events ELSE uid_events

\* beat_heartbeat
beat_heartbeat(us, uid_id) ==
    [us EXCEPT ![uid_id] = [@ EXCEPT !.heartbeat_at = Some(Now)]]

\* complete_uid: the UPDATE (by id alone)
complete_uid(us, uid_id, status, error_code, next_attempt_after) ==
    [us EXCEPT ![uid_id] = [@ EXCEPT !.status = status,
                                     !.last_error_code = error_code,
                                     !.next_attempt_after = next_attempt_after,
                                     !.heartbeat_at = None]]

\* force_retry: the UPDATE (by id alone)
force_retry(us, uid_id) ==
    [us EXCEPT ![uid_id] = [@ EXCEPT !.status = STATUS_FAIL_RETRYABLE,
                                     !.next_attempt_after = Some(Now),
                                     !.attempts = IF @ > 0 THEN @ - 1 ELSE 0]]

-----------------------------------------------------------------------------
(* Daily quota *)

\* fault: a quota computation that ignores what was sent
remaining_today_unmetered(dc, date_ymd) == daily_limit

\* ProfileManager.remaining_today, on the counters ensure_today_counter left
remaining_today(dc, date_ymd) ==
    LET counters == get_daily_counter(ensure_daily_counter(dc, date_ymd), date_ymd)
        used == counters.sent_success + counters.sent_fail
    IN  Max(0, daily_limit - used)

-----------------------------------------------------------------------------
(* Send worker: FBWorker *)

REASON_TIMED_OUT == <<"A", "u", "t", "o", "m", "a", "t", "i", "o", "n", " ", "t", "i", "m", "e", "d", " ", "o", "u", "t">>
REASON_UNKNOWN == <<"U", "n", "k", "n", "o", "w", "n", " ", "a", "u", "t", "o", "m", "a", "t", "i", "o", "n", " ", "e", "r", "r", "o", "r">>
TOKENS_UI == {<<"c", "o", "m", "p", "o", "s", "e", "r">>, <<"m", "e", "s", "s", "a", "g", "e", " ", "i", "n", "p", "u", "t", " ", "b", "o", "x">>, <<"m", "e", "s", "s", "a", "g", "e", " ", "b", "o", "x">>}
TOKENS_NAV == {<<"t", "i", "m", "e", "o", "u", "t">>, <<"t", "i", "m", "e", "d", " ", "o", "u", "t">>, <<"l", "o", "a", "d">>}
TOKENS_AUTH == {<<"l", "o", "g", "i", "n">>, <<"a", "u", "t", "h">>}

SendResult(status, error_code) == [status |-> status, error_code |-> error_code]

\* fault: the navigation tokens are looked for before the input-box tokens
classify_failure_nav_first(reason) ==
    LET normalized == Lower(reason)
    IN  IF \E token \in TOKENS_NAV : Contains(normalized, token)
          THEN SendResult(STATUS_FAIL_RETRYABLE, Some("NAV_TIMEOUT"))
        ELSE IF \E token \in TOKENS_UI : Contains(normalized, token)
          THEN SendResult(STATUS_FAIL_PERM, Some("UI_NOT_FOUND"))
        ELSE IF \E token \in TOKENS_AUTH : Contains(normalized, token)
          THEN SendResult(STATUS_FAIL_RETRYABLE, Some("AUTH_REQUIRED"))
        ELSE SendResult(STATUS_FAIL_RETRYABLE, Some("UNKNOWN"))

\* FBWorker._classify_failure(reason) -> (status, error_code)
classify_failure(reason) ==
    LET normalized == Lower(reason)
    IN  IF \E token \in TOKENS_UI : Contains(normalized, token)
          THEN SendResult(STATUS_FAIL_PERM, Some("UI_NOT_FOUND"))
        ELSE IF \E token \in TOKENS_NAV : Contains(normalized, token)
          THEN SendResult(STATUS_FAIL_RETRYABLE, Some("NAV_TIMEOUT"))
        ELSE IF \E token \in TOKENS_AUTH : Contains(normalized, token)
          THEN SendResult(STATUS_FAIL_RETRYABLE, Some("AUTH_REQUIRED"))
        ELSE SendResult(STATUS_FAIL_RETRYABLE, Some("UNKNOWN"))

\* send_message_to_uid after loop.exec(): the result read from result_holder
result_of(result_holder) ==
    LET success == result_holder.success = Some(TRUE)
        error_msg == IF result_holder.reason = None THEN REASON_UNKNOWN
                     ELSE Get(result_holder.reason)
    IN  IF success THEN SendResult(STATUS_SUCCESS, None)
        ELSE classify_failure(error_msg)

\* on_complete(success, reason): a caller that gives a reason; an empty reason
\* is not stored
on_complete_reason(result_holder, success, reason) ==
    [success |-> Some(success),
     reason |-> IF reason # <<>> THEN Some(reason) ELSE result_holder.reason]

\* reasons a failed automation may hand to on_complete: the two of the worker,
\* the empty one, and reasons naming one or two kinds of token in mixed case
REASON ==
    [composer |-> <<"C", "o", "m", "p", "o", "s", "e", "r", " ", "m", "i", "s", "s", "i", "n", "g">>,
     input_and_timeout |-> <<"M", "E", "S", "S", "A", "G", "E", " ", "I", "N", "P", "U", "T", " ", "B", "O", "X", " ", "t", "i", "m", "e", "o", "u", "t">>,
     login_and_box |-> <<"l", "o", "g", "i", "n", ":", " ", "n", "o", " ", "M", "e", "s", "s", "a", "g", "e", " ", "B", "o", "x">>,
     login |-> <<"L", "o", "g", "i", "n", " ", "r", "e", "q", "u", "i", "r", "e", "d">>,
     load |-> <<"P", "a", "g", "e", " ", "L", "O", "A", "D", " ", "f", "a", "i", "l", "e", "d">>,
     auth_and_timeout |-> <<"A", "u", "t", "h", " ", "T", "i", "m", "e", "o", "u", "t">>]
Reasons ==
    {<<>>, REASON_TIMED_OUT, REASON_UNKNOWN, REASON.composer, REASON.input_and_timeout,
     REASON.login_and_box, REASON.login, REASON.load, REASON.auth_and_timeout}

\* on_complete(success): automation.py calls the callback with success alone
on_complete(result_holder, success) ==
    [result_holder EXCEPT !.success = Some(success)]

\* on_timeout(): setdefault of both keys
on_timeout(result_holder) ==
    [success |-> IF result_holder.success = None THEN Some(FALSE)
                 ELSE result_holder.success,
     reason |-> IF result_holder.reason = None THEN Some(REASON_TIMED_OUT)
                ELSE result_holder.reason]

\* a _process_next_uid call blocked in send_message_to_uid, as it enters
\* _wait_for_page_load
NewFrame(uid_id, attempts) ==
    [uid_id |-> uid_id, attempts |-> attempts,
     phase |-> "page_load",       \* the nested QEventLoop it is blocked in
     quit |-> FALSE,              \* loop.quit() was called
     timer |-> TRUE,              \* the loop's own QTimer is active
     connected |-> TRUE,          \* on_finished is connected to loadFinished
     success_flag |-> FALSE,
     remaining |-> 0,             \* _countdown
     result_holder |-> [success |-> None, reason |-> None],
     auto_timer |-> FALSE,        \* BrowserAutomation.timer is active
     attempt_count |-> 0,         \* BrowserAutomation.attempt_count
     script |-> "none",           \* the typing script: none, running, ok, fail, reported
     completed |-> None]          \* _handle_result: the status complete_uid has stored

\* send_message_to_uid from create_automation to loop.exec()
EnterAutomation(f) ==
    [f EXCEPT !.phase = "automation", !.quit = FALSE, !.timer = TRUE,
              !.connected = FALSE, !.remaining = 0,
              !.result_holder = [success |-> None, reason |-> None],
              !.auto_timer = TRUE, !.attempt_count = 0, !.script = "none"]

\* _countdown up to loop.exec()
EnterCountdown(f) ==
    [f EXCEPT !.phase = "countdown", !.quit = FALSE, !.timer = TRUE,
              !.connected = FALSE, !.remaining = page_load_countdown_sec]

-----------------------------------------------------------------------------
(* Task engine: TaskEngine *)


\* the import calls of the model: the first line, or both at once
ImportBatches == {<<<<"1">>>>, <<<<"1">>, <<"2">>>>}
\* the import of the first line alone
SoloBatch == <<<<"1">>>>

\* the texts an operator imports: up to MaxBatch lines of ImportLines
TextBatches == UNION {[1..n -> ImportLines] : n \in 1..MaxBatch}

\* settings of a profile that gives up after the second attempt, with a
\* retry delay at the cap from the first failure on
QuickRetrySettings == [retry_max_attempts |-> 2, retry_backoff_sec |-> 120]

\* the state after ProfileManager.__init__ and TaskEngine.__init__ on a new database
Init ==
    /\ uids = <<>>
    /\ uid_events = <<>>
    /\ daily_counters = [d \in Days |-> None]
    /\ today = 0
    /\ daily_limit \in 1..MaxDailyLimit
    /\ settings = QuickRetrySettings
    /\ state = "IDLE"
    /\ state_reason = None
    /\ delay_timer = None
    /\ cooldown_timer = FALSE
    /\ cooldown_remaining = 0
    /\ stack = <<>>
    /\ delivered = {}
    /\ was_terminal = {}
    /\ last_backoff = [i \in 1..MaxUids |-> None]
    /\ lease_tx = NoLeaseTx
    /\ report = None
    /\ classified = None

\* settings of a profile that allows three attempts, with a retry delay that
\* starts under the cap and doubles past it
SteppedRetrySettings == [retry_max_attempts |-> 3, retry_backoff_sec |-> 80]

\* Init for a profile configured with SteppedRetrySettings
InitStepped ==
    /\ uids = <<>>
    /\ uid_events = <<>>
    /\ daily_counters = [d \in Days |-> None]
    /\ today = 0
    /\ daily_limit \in 1..MaxDailyLimit
    /\ settings = SteppedRetrySettings
    /\ state = "IDLE"
    /\ state_reason = None
    /\ delay_timer = None
    /\ cooldown_timer = FALSE
    /\ cooldown_remaining = 0
    /\ stack = <<>>
    /\ delivered = {}
    /\ was_terminal = {}
    /\ last_backoff = [i \in 1..MaxUids |-> None]
    /\ lease_tx = NoLeaseTx
    /\ report = None
    /\ classified = None

\* fault: a timer started without stopping the one that is pending
schedule_next_additive(delay_seconds) ==
    /\ cooldown_remaining' = delay_seconds
    /\ delay_timer' = delay_timer \cup Some(IF delay_seconds <= 0 THEN 0 ELSE delay_seconds)
    /\ cooldown_timer' = (delay_seconds > 0)

\* _schedule_next(delay_seconds)
schedule_next(delay_seconds) ==
    /\ cooldown_remaining' = delay_seconds
    /\ delay_timer' = Some(IF delay_seconds <= 0 THEN 0 ELSE delay_seconds)
    /\ cooldown_timer' = (delay_seconds > 0)

\* the retry delay of _handle_result
backoff_seconds(attempts) ==
    Min(BackoffCap, retry_backoff_sec * Pow2(attempts - 1))

\* fault: a retryable failure is never the last one
completion_of_retry_forever(attempts, result) ==
    IF result.status = STATUS_SUCCESS
      THEN [status |-> STATUS_SUCCESS, error_code |-> None, next_attempt_after |-> None]
    ELSE IF result.status = STATUS_FAIL_PERM
      THEN [status |-> STATUS_FAIL_PERM, error_code |-> result.error_code,
            next_attempt_after |-> None]
    ELSE [status |-> STATUS_FAIL_RETRYABLE, error_code |-> result.error_code,
          next_attempt_after |-> Some(Now + backoff_seconds(attempts))]

\* _handle_result: the row complete_uid writes for the result
completion_of(attempts, result) ==
    IF result.status = STATUS_SUCCESS
      THEN [status |-> STATUS_SUCCESS, error_code |-> None, next_attempt_after |-> None]
    ELSE IF result.status = STATUS_FAIL_PERM
      THEN [status |-> STATUS_FAIL_PERM, error_code |-> result.error_code,
            next_attempt_after |-> None]
    ELSE IF attempts >= retry_max_attempts
      THEN [status |-> STATUS_FAIL_PERM,
            error_code |-> IF result.error_code = None THEN Some("MAX_ATTEMPTS")
                           ELSE result.error_code,
            next_attempt_after |-> None]
    ELSE [status |-> STATUS_FAIL_RETRYABLE, error_code |-> result.error_code,
          next_attempt_after |-> Some(Now + backoff_seconds(attempts))]

\* fault: permanent failures are not charged to the day
counters_after_successes(dc, date_ymd, status) ==
    IF status = STATUS_SUCCESS
      THEN increment_daily(ensure_daily_counter(dc, date_ymd), date_ymd, TRUE)
    ELSE dc

\* _handle_result: the daily counters after the result
counters_after(dc, date_ymd, status) ==
    IF status = STATUS_SUCCESS
      THEN increment_daily(ensure_daily_counter(dc, date_ymd), date_ymd, TRUE)
    ELSE IF status = STATUS_FAIL_PERM
      THEN increment_daily(ensure_daily_counter(dc, date_ymd), date_ymd, FALSE)
    ELSE dc

\* the delays seen so far, after a result was stored for uid_id in table us
backoff_seen(uid_id, us) ==
    IF us[uid_id].status = STATUS_FAIL_RETRYABLE
    THEN [last_backoff EXCEPT ![uid_id] = Some(Get(us[uid_id].next_attempt_after) - Now)]
    ELSE last_backoff

\* _handle_result(uid_row, result)
handle_result(uid_id, attempts, result) ==
    LET c == completion_of(attempts, result)
    IN  /\ uids' = complete_uid(uids, uid_id, c.status, c.error_code, c.next_attempt_after)
        /\ uid_events' = record_event(uid_events, uid_id, "RESULT")
        /\ daily_counters' = counters_after(daily_counters, today, c.status)
        /\ schedule_next(delay_between_uids_sec)

\* start()
start ==
    /\ state # "RUNNING"
    /\ uids' = reset_stale_uids(uids)
    /\ uid_events' = reset_stale_events(uids, uid_events)
    /\ state' = "RUNNING"
    /\ schedule_next(0)
    /\ UNCHANGED <<daily_counters, profile_vars, state_reason, stack, delivered, was_terminal, last_backoff, aux_vars>>

\* pause()
pause ==
    /\ state = "RUNNING"
    /\ state_reason' = Some("user")
    /\ state' = "PAUSED"
    /\ delay_timer' = None
    /\ cooldown_timer' = FALSE
    /\ UNCHANGED <<store_vars, profile_vars, cooldown_remaining, stack, delivered, was_terminal, last_backoff, aux_vars>>

\* resume()
resume ==
    /\ state \in {"PAUSED", "IDLE"}
    /\ state_reason' = None
    /\ state' = "RUNNING"
    /\ schedule_next(0)
    /\ UNCHANGED <<store_vars, profile_vars, stack, delivered, was_terminal, last_backoff, aux_vars>>

\* stop()
stop ==
    /\ state' = "STOPPED"
    /\ delay_timer' = None
    /\ cooldown_timer' = FALSE
    /\ UNCHANGED <<store_vars, profile_vars, state_reason, cooldown_remaining, stack, delivered, was_terminal, last_backoff, aux_vars>>

\* _tick_cooldown(): cooldown_timer fires
tick_cooldown ==
    /\ cooldown_timer
    /\ IF cooldown_remaining <= 0
       THEN cooldown_timer' = FALSE /\ UNCHANGED cooldown_remaining
       ELSE /\ cooldown_remaining' = cooldown_remaining - 1
            /\ cooldown_timer' = (cooldown_remaining - 1 > 0)
    /\ UNCHANGED <<store_vars, profile_vars, state, state_reason,
                   delay_timer, stack, delivered, was_terminal, last_backoff, aux_vars>>

\* fault: the iteration does not look at the state of the engine
process_next_uid_unguarded ==
    /\ delay_timer # None /\ Get(delay_timer) <= 0
    /\ IF remaining_today(daily_counters, today) <= 0
       THEN /\ daily_counters' = ensure_daily_counter(daily_counters, today)
            /\ state_reason' = Some("limit")
            /\ state' = "PAUSED"
            /\ delay_timer' = None
            /\ UNCHANGED <<uids, uid_events, profile_vars,
                           cooldown_timer, cooldown_remaining, stack, delivered, was_terminal, last_backoff, aux_vars>>
       ELSE IF LeaseCandidates(uids) = {}
       THEN /\ daily_counters' = ensure_daily_counter(daily_counters, today)
            /\ state' = "IDLE"
            /\ delay_timer' = None
            /\ UNCHANGED <<uids, uid_events, profile_vars, state_reason,
                           cooldown_timer, cooldown_remaining, stack, delivered, was_terminal, last_backoff, aux_vars>>
       ELSE \E uid_id \in LeaseCandidates(uids) :
            /\ Len(stack) < MaxDepth
            /\ uids[uid_id].attempts < MaxAttempts
            /\ daily_counters' = ensure_daily_counter(daily_counters, today)
            /\ uids' = lease_uid(uids, uid_id)
            /\ uid_events' = record_event(uid_events, uid_id, "START")
            /\ stack' = Append(stack, NewFrame(uid_id, uids[uid_id].attempts + 1))
            /\ delay_timer' = None
            /\ UNCHANGED <<profile_vars, state, state_reason, cooldown_timer,
                           cooldown_remaining, delivered, was_terminal, last_backoff, aux_vars>>

\* _process_next_uid(), up to the point where it blocks in the send: the
\* single-shot delay_timer fires
process_next_uid ==
    /\ delay_timer # None /\ Get(delay_timer) <= 0
    /\ IF state # "RUNNING"
       THEN /\ delay_timer' = None
            /\ UNCHANGED <<store_vars, profile_vars, state, state_reason,
                           cooldown_timer, cooldown_remaining, stack, delivered, was_terminal, last_backoff, aux_vars>>
       ELSE IF remaining_today(daily_counters, today) <= 0
       THEN /\ daily_counters' = ensure_daily_counter(daily_counters, today)
            /\ state_reason' = Some("limit")
            /\ state' = "PAUSED"
            /\ delay_timer' = None
            /\ UNCHANGED <<uids, uid_events, profile_vars,
                           cooldown_timer, cooldown_remaining, stack, delivered, was_terminal, last_backoff, aux_vars>>
       ELSE IF LeaseCandidates(uids) = {}
       THEN /\ daily_counters' = ensure_daily_counter(daily_counters, today)
            /\ state' = "IDLE"
            /\ delay_timer' = None
            /\ UNCHANGED <<uids, uid_events, profile_vars, state_reason,
                           cooldown_timer, cooldown_remaining, stack, delivered, was_terminal, last_backoff, aux_vars>>
       ELSE \E uid_id \in LeaseCandidates(uids) :
            /\ Len(stack) < MaxDepth
            /\ uids[uid_id].attempts < MaxAttempts
            /\ daily_counters' = ensure_daily_counter(daily_counters, today)
            /\ uids' = lease_uid(uids, uid_id)
            /\ uid_events' = record_event(uid_events, uid_id, "START")
            /\ stack' = Append(stack, NewFrame(uid_id, uids[uid_id].attempts + 1))
            /\ delay_timer' = None
            /\ UNCHANGED <<profile_vars, state, state_reason, cooldown_timer,
                           cooldown_remaining, delivered, was_terminal, last_backoff, aux_vars>>

-----------------------------------------------------------------------------
(* Events delivered while a send is blocked in its nested event loop.  Every
   frame of the stack has live timers and callbacks; only the innermost one
   can return. *)

Top == Len(stack)

\* the view emits loadFinished(ok): every connected on_finished runs.  The
\* loop's timer could only repeat loop.quit() from here on, and timer.stop()
\* follows the return: the frame records it as stopped.
load_finished(ok) ==
    /\ \E i \in 1..Len(stack) : stack[i].connected
    /\ stack' = [i \in 1..Len(stack) |->
                    IF stack[i].connected
                    THEN [stack[i] EXCEPT !.success_flag = ok, !.connected = FALSE,
                                          !.quit = TRUE, !.timer = FALSE]
                    ELSE stack[i]]
    /\ UNCHANGED <<store_vars, profile_vars, engine_vars, delivered, was_terminal, last_backoff, aux_vars>>

\* _wait_for_page_load: the single-shot timer fires loop.quit
load_timeout(i) ==
    /\ stack[i].phase = "page_load" /\ stack[i].timer
    /\ stack' = [stack EXCEPT ![i].timer = FALSE, ![i].quit = TRUE]
    /\ UNCHANGED <<store_vars, profile_vars, engine_vars, delivered, was_terminal, last_backoff, aux_vars>>

\* _countdown: tick()
countdown_tick(i) ==
    /\ stack[i].phase = "countdown" /\ stack[i].timer
    /\ stack' = [stack EXCEPT ![i].remaining = @ - 1,
                              ![i].timer = (stack[i].remaining - 1 > 0),
                              ![i].quit = (stack[i].remaining - 1 <= 0)]
    /\ UNCHANGED <<store_vars, profile_vars, engine_vars, delivered, was_terminal, last_backoff, aux_vars>>

\* BrowserAutomation.attempt_typing(): automation.timer fires; the page shows
\* the message box or not
attempt_typing(i, message_box_present) ==
    /\ stack[i].phase = "automation" /\ stack[i].auto_timer
    /\ IF stack[i].attempt_count >= retry_max_attempts
       THEN stack' = [stack EXCEPT ![i].auto_timer = FALSE]
       ELSE IF message_box_present
       THEN stack' = [stack EXCEPT ![i].auto_timer = FALSE, ![i].script = "running",
                                   ![i].attempt_count = @ + 1]
       ELSE stack' = [stack EXCEPT ![i].attempt_count = @ + 1,
                                   ![i].auto_timer = (stack[i].attempt_count + 1
                                                        < retry_max_attempts)]
    /\ UNCHANGED <<store_vars, profile_vars, engine_vars, delivered, was_terminal, last_backoff, aux_vars>>

\* automate_messaging: the single shot that stops automation.timer after
\* max_attempts * delay; no earlier than the last tick
automation_stop(i) ==
    /\ stack[i].phase = "automation" /\ stack[i].auto_timer
    /\ stack[i].attempt_count >= retry_max_attempts - 1
    /\ stack' = [stack EXCEPT ![i].auto_timer = FALSE]
    /\ UNCHANGED <<store_vars, profile_vars, engine_vars, delivered, was_terminal, last_backoff, aux_vars>>

\* the page runs the typing script: it sends the message, or fails
script_run(i, sent) ==
    /\ stack[i].phase = "automation" /\ stack[i].script = "running"
    /\ stack' = [stack EXCEPT ![i].script = IF sent THEN "ok" ELSE "fail"]
    /\ delivered' = IF sent THEN delivered \cup {stack[i].uid_id} ELSE delivered
    /\ UNCHANGED <<store_vars, profile_vars, engine_vars, was_terminal, last_backoff, aux_vars>>

\* BrowserAutomation._type_message_callback(result), which calls on_complete
type_message_callback(i) ==
    /\ stack[i].phase = "automation" /\ stack[i].script \in {"ok", "fail"}
    /\ stack' = [stack EXCEPT
                    ![i].script = "reported",
                    ![i].attempt_count = IF stack[i].script = "ok" THEN @ ELSE @ + 1,
                    ![i].result_holder = on_complete(@, stack[i].script = "ok"),
                    ![i].quit = TRUE]
    /\ UNCHANGED <<store_vars, profile_vars, engine_vars, delivered, was_terminal, last_backoff, aux_vars>>

\* send_message_to_uid: timeout_timer fires on_timeout
send_timeout(i) ==
    /\ stack[i].phase = "automation" /\ stack[i].timer
    /\ stack' = [stack EXCEPT ![i].timer = FALSE,
                              ![i].result_holder = on_timeout(@),
                              ![i].quit = TRUE]
    /\ UNCHANGED <<store_vars, profile_vars, engine_vars, delivered, was_terminal, last_backoff, aux_vars>>

\* the innermost loop.exec() returns; send_message_to_uid runs on to its next
\* loop, or returns and _process_next_uid calls _handle_result
loop_return ==
    /\ stack # <<>> /\ stack[Top].quit
    /\ LET f == stack[Top]
           go(g) == /\ stack' = [stack EXCEPT ![Top] = g]
                    /\ UNCHANGED <<store_vars, profile_vars, engine_vars, delivered, was_terminal, last_backoff, aux_vars>>
           done(result) == /\ handle_result(f.uid_id, f.attempts, result)
                           /\ stack' = SubSeq(stack, 1, Top - 1)
                           /\ was_terminal' = was_terminal \cup TerminalIds(uids')
                           /\ last_backoff' = backoff_seen(f.uid_id, uids')
                           /\ UNCHANGED <<profile_vars, state, state_reason, delivered, aux_vars>>
       IN  CASE f.phase = "page_load" ->
                  IF ~f.success_flag
                    THEN done(SendResult(STATUS_FAIL_RETRYABLE, Some("NAV_TIMEOUT")))
                  ELSE IF page_load_countdown_sec > 0 THEN go(EnterCountdown(f))
                  ELSE go(EnterAutomation(f))
             [] f.phase = "countdown" -> go(EnterAutomation(f))
             [] f.phase = "automation" -> done(result_of(f.result_holder))

\* the results the type of send_message_to_uid allows: SUCCESS, a permanent
\* failure, a retryable failure with and without an error code
SendResults ==
    {SendResult(STATUS_SUCCESS, None),
     SendResult(STATUS_FAIL_PERM, Some("UI_NOT_FOUND")),
     SendResult(STATUS_FAIL_RETRYABLE, Some("NAV_TIMEOUT")),
     SendResult(STATUS_FAIL_RETRYABLE, None)}

\* send_message_to_uid taken as a whole: the innermost send returns the given
\* result and _process_next_uid calls _handle_result; a SUCCESS is a delivery
send_returns(result) ==
    /\ stack # <<>>
    /\ handle_result(stack[Top].uid_id, stack[Top].attempts, result)
    /\ stack' = SubSeq(stack, 1, Top - 1)
    /\ was_terminal' = was_terminal \cup TerminalIds(uids')
    /\ last_backoff' = backoff_seen(stack[Top].uid_id, uids')
    /\ delivered' = IF result.status = STATUS_SUCCESS
                    THEN delivered \cup {stack[Top].uid_id} ELSE delivered
    /\ UNCHANGED <<profile_vars, state, state_reason, aux_vars>>

\* send_message_to_uid taken as a whole when the automation reports a failure
\* with the given reason: on_complete(False, reason), the result is read from
\* result_holder and classified, and _process_next_uid calls _handle_result
send_fails(reason) ==
    LET holder == on_complete_reason([success |-> None, reason |-> None], FALSE, reason)
        error_msg == IF holder.reason = None THEN REASON_UNKNOWN ELSE Get(holder.reason)
        result == result_of(holder)
    IN  /\ stack # <<>>
        /\ handle_result(stack[Top].uid_id, stack[Top].attempts, result)
        /\ stack' = SubSeq(stack, 1, Top - 1)
        /\ was_terminal' = was_terminal \cup TerminalIds(uids')
        /\ last_backoff' = backoff_seen(stack[Top].uid_id, uids')
        /\ classified' = Some([reason |-> error_msg, result |-> result])
        /\ UNCHANGED <<profile_vars, state, state_reason, delivered, lease_tx, report>>

\* send_message_to_uid returns the given result and _handle_result runs up
\* to the return of complete_uid, which has committed the row and its RESULT
\* event; the day's counter is written by later calls, on connections of
\* their own
complete_stored(result) ==
    /\ stack # <<>> /\ stack[Top].completed = None
    /\ LET c == completion_of(stack[Top].attempts, result)
       IN  /\ uids' = complete_uid(uids, stack[Top].uid_id, c.status, c.error_code,
                                   c.next_attempt_after)
           /\ stack' = [stack EXCEPT ![Top].phase = "handle_result",
                                     ![Top].completed = Some(c.status)]
    /\ uid_events' = record_event(uid_events, stack[Top].uid_id, "RESULT")
    /\ was_terminal' = was_terminal \cup TerminalIds(uids')
    /\ last_backoff' = backoff_seen(stack[Top].uid_id, uids')
    /\ delivered' = IF result.status = STATUS_SUCCESS
                    THEN delivered \cup {stack[Top].uid_id} ELSE delivered
    /\ UNCHANGED <<daily_counters, profile_vars, engine_vars, aux_vars>>

\* _handle_result from ensure_daily_counter to its return: the counter of the
\* day is incremented for a terminal status and the next iteration scheduled
counters_charged ==
    /\ stack # <<>> /\ stack[Top].completed # None
    /\ daily_counters' = counters_after(daily_counters, today, Get(stack[Top].completed))
    /\ schedule_next(delay_between_uids_sec)
    /\ stack' = SubSeq(stack, 1, Top - 1)
    /\ UNCHANGED <<uids, uid_events, profile_vars, state, state_reason, delivered,
                   was_terminal, last_backoff, aux_vars>>

\* code of send_message_to_uid that runs after a loop.exec() returned raises
\* (create_automation, _capture_evidence, ...).  _process_next_uid has no
\* handler around the call: the exception leaves the timer slot and
\* _handle_result is not reached.  PyQt then either hands it to an installed
\* sys.excepthook, and the event loop goes on without the abandoned call, or
\* aborts the process, which is started again.
send_raises ==
    /\ stack # <<>> /\ stack[Top].quit
    /\ \/ /\ stack' = SubSeq(stack, 1, Top - 1)
          /\ UNCHANGED <<store_vars, profile_vars, engine_vars, delivered, was_terminal, last_backoff, aux_vars>>
       \/ /\ state' = "IDLE"
          /\ state_reason' = None
          /\ delay_timer' = None
          /\ cooldown_timer' = FALSE
          /\ cooldown_remaining' = 0
          /\ stack' = <<>>
          /\ UNCHANGED <<store_vars, profile_vars, delivered, was_terminal, last_backoff, aux_vars>>

-----------------------------------------------------------------------------
(* Environment *)

\* the operator imports lines: add_uids
import(lines) ==
    LET r == add_uids(uids, uid_events, lines)
    IN  /\ Len(r.uids) <= MaxUids
        /\ uids' = r.uids
        /\ uid_events' = r.events
        /\ UNCHANGED <<daily_counters, profile_vars, engine_vars, stack, delivered, was_terminal, last_backoff, aux_vars>>

\* a process calls lease_next_uid; it holds no lease of an earlier call
lease_call(c) ==
    /\ lease_tx.call[c] = NoCall
    /\ lease_tx' = [lease_tx EXCEPT !.call[c].pc = 1]
    /\ UNCHANGED <<store_vars, profile_vars, engine_vars, stack, delivered, was_terminal,
                   last_backoff, report, classified>>

\* the tables and the write lock after connection c wrote (us, evs): inside
\* its transaction the rows stay uncommitted, in autocommit mode the
\* statement commits by itself
tx_write(c, us, evs) ==
    IF lease_tx.owner = Some(c)
    THEN /\ lease_tx' = [lease_tx EXCEPT !.w_uids = us, !.w_events = evs,
                                         !.call[c].pc = @ + 1]
         /\ UNCHANGED <<uids, uid_events>>
    ELSE /\ lease_tx.owner = None
         /\ uids' = us
         /\ uid_events' = evs
         /\ lease_tx' = [lease_tx EXCEPT !.call[c].pc = @ + 1]

\* conn.close() and return data: the caller now holds the leased recipient
lease_returns(c) ==
    /\ lease_tx.call[c].pc = Len(LeaseSteps) + 1
    /\ lease_tx' = [lease_tx EXCEPT !.call[c] =
                        [pc |-> 0, row |-> None, held |-> Some(Get(@.row).id)]]
    /\ UNCHANGED <<store_vars, profile_vars, engine_vars, stack, delivered, was_terminal,
                   last_backoff, report, classified>>

\* connection c executes the next statement of lease_next_uid
lease_step(c) ==
    LET call == lease_tx.call[c]
        stmt == LeaseSteps[call.pc]
    IN  /\ call.pc \in 1..Len(LeaseSteps)
        /\ CASE stmt = "BEGIN IMMEDIATE" ->
                  \* the write lock is taken at once, or waited for
                  /\ lease_tx.owner = None
                  /\ lease_tx' = [lease_tx EXCEPT !.owner = Some(c), !.w_uids = uids,
                                                  !.w_events = uid_events,
                                                  !.call[c].pc = @ + 1]
                  /\ UNCHANGED <<uids, uid_events>>
             [] stmt = "SELECT" ->
                  IF LeaseCandidates(tx_uids(c)) = {}
                  THEN \* row is None: COMMIT, close, return None
                       /\ uids' = tx_uids(c)
                       /\ uid_events' = tx_events(c)
                       /\ lease_tx' = [lease_tx EXCEPT
                              !.owner = IF @ = Some(c) THEN None ELSE @,
                              !.w_uids = IF lease_tx.owner = Some(c) THEN <<>> ELSE @,
                              !.w_events = IF lease_tx.owner = Some(c) THEN <<>> ELSE @,
                              !.call[c] = NoCall]
                  ELSE /\ \E i \in LeaseCandidates(tx_uids(c)) :
                            lease_tx' = [lease_tx EXCEPT
                               !.call[c].row = Some([id |-> i, attempts |-> tx_uids(c)[i].attempts]),
                               !.call[c].pc = @ + 1]
                       /\ UNCHANGED <<uids, uid_events>>
             [] stmt = "UPDATE" ->
                  tx_write(c, lease_update(tx_uids(c), Get(call.row).id,
                                           Get(call.row).attempts + 1),
                           tx_events(c))
             [] stmt = "EVENT" ->
                  tx_write(c, tx_uids(c),
                           record_event(tx_events(c), Get(call.row).id, "START"))
             [] stmt = "COMMIT" ->
                  /\ lease_tx.owner = Some(c)
                  /\ uids' = lease_tx.w_uids
                  /\ uid_events' = lease_tx.w_events
                  /\ lease_tx' = [lease_tx EXCEPT !.owner = None, !.w_uids = <<>>,
                                                  !.w_events = <<>>,
                                                  !.call[c].pc = @ + 1]
        /\ UNCHANGED <<daily_counters, profile_vars, engine_vars, stack, delivered,
                       was_terminal, last_backoff, report, classified>>

\* the busy timeout of sqlite3.connect runs out while another connection
\* holds the write lock: the statement raises OperationalError and the call
\* ends without a lease
lease_busy(c) ==
    /\ lease_tx.call[c].pc \in 1..Len(LeaseSteps)
    /\ LeaseSteps[lease_tx.call[c].pc] \in {"BEGIN IMMEDIATE", "UPDATE", "EVENT"}
    /\ lease_tx.owner \notin {None, Some(c)}
    /\ lease_tx' = [lease_tx EXCEPT !.call[c] = NoCall]
    /\ UNCHANGED <<store_vars, profile_vars, engine_vars, stack, delivered, was_terminal,
                   last_backoff, report, classified>>

\* the holder of a lease stores the result of its send: complete_uid, which
\* needs the write lock
lease_completed(c, result) ==
    LET held == Get(lease_tx.call[c].held)
        done == completion_of(uids[held].attempts, result)
    IN  /\ lease_tx.call[c].held # None
        /\ lease_tx.owner = None
        /\ uids' = complete_uid(uids, held, done.status, done.error_code,
                                done.next_attempt_after)
        /\ uid_events' = record_event(uid_events, held, "RESULT")
        /\ lease_tx' = [lease_tx EXCEPT !.call[c] = NoCall]
        /\ UNCHANGED <<daily_counters, profile_vars, engine_vars, stack, delivered,
                       was_terminal, last_backoff, report, classified>>

\* the operator imports lines and is shown the ImportReport add_uids returns
import_reported(lines) ==
    LET r == add_uids(uids, uid_events, lines)
    IN  /\ Len(r.uids) <= MaxUids
        /\ uids' = r.uids
        /\ uid_events' = r.events
        /\ report' = Some([lines |-> lines, added |-> r.added,
                           duplicates |-> r.duplicates, invalid |-> r.invalid])
        /\ UNCHANGED <<daily_counters, profile_vars, engine_vars, stack, delivered,
                       was_terminal, last_backoff, lease_tx, classified>>

\* a manual force_retry of one recipient
manual_force_retry(uid_id) ==
    /\ Cardinality({k \in 1..Len(uid_events) :
            \E j \in 1..Len(uid_events[k]) : uid_events[k][j] = "RETRY_SCHEDULED"})
         < MaxForceRetry
    /\ uids' = force_retry(uids, uid_id)
    /\ uid_events' = record_event(uid_events, uid_id, "RETRY_SCHEDULED")
    /\ UNCHANGED <<daily_counters, profile_vars, engine_vars, stack, delivered, was_terminal, last_backoff, aux_vars>>

\* a timestamp in the past after d more seconds; one older than every stale
\* cut-off stays so
ShiftPast(t, d) == IF t = None THEN None
                   ELSE IF Get(t) - d < Now - stale_after_seconds
                     THEN Some(Now - stale_after_seconds - 1)
                   ELSE Some(Get(t) - d)

\* a deadline after d more seconds; one that is due stays due
ShiftDue(t, d) == IF t = None THEN None ELSE Some(Max(Get(t) - d, 0))

\* d seconds pass
tick(d) ==
    /\ uids' = [i \in 1..Len(uids) |->
                  [uids[i] EXCEPT !.heartbeat_at = ShiftPast(@, d),
                                  !.next_attempt_after = ShiftDue(@, d)]]
    /\ delay_timer' = ShiftDue(delay_timer, d)
    /\ UNCHANGED <<uid_events, daily_counters, profile_vars, state, state_reason,
                   cooldown_timer, cooldown_remaining, stack, delivered, was_terminal, last_backoff, aux_vars>>

\* ProfileManager.set_daily_limit(limit)
set_daily_limit(limit) ==
    /\ daily_limit' = limit
    /\ UNCHANGED <<today, settings, store_vars, engine_vars, stack, delivered, was_terminal, last_backoff, aux_vars>>

\* local midnight passes
midnight ==
    /\ today < MaxDays
    /\ today' = today + 1
    /\ UNCHANGED <<daily_limit, settings, store_vars, engine_vars, stack, delivered, was_terminal, last_backoff, aux_vars>>

\* the process dies and the application is started again: the database is
\* kept, everything in memory is as after __init__
crash_restart ==
    /\ state' = "IDLE"
    /\ state_reason' = None
    /\ delay_timer' = None
    /\ cooldown_timer' = FALSE
    /\ cooldown_remaining' = 0
    /\ stack' = <<>>
    /\ UNCHANGED <<store_vars, profile_vars, delivered, was_terminal, last_backoff, aux_vars>>

\* the handlers the event loop runs by itself: timers, page events, returns
Program ==
    \/ tick_cooldown
    \/ process_next_uid
    \/ \E ok \in BOOLEAN : load_finished(ok)
    \/ \E i \in 1..Len(stack) : load_timeout(i)
    \/ \E i \in 1..Len(stack) : countdown_tick(i)
    \/ \E i \in 1..Len(stack), present \in BOOLEAN : attempt_typing(i, present)
    \/ \E i \in 1..Len(stack) : automation_stop(i)
    \/ \E i \in 1..Len(stack), sent \in BOOLEAN : script_run(i, sent)
    \/ \E i \in 1..Len(stack) : type_message_callback(i)
    \/ \E i \in 1..Len(stack) : send_timeout(i)
    \/ loop_return

\* The engine driven by Start alone, over up to MaxUids recipients, with the
\* clock and with crashes.  No send is ever nested here: one frame at most is
\* in flight, and the page the automation types into is its own recipient's.
Next ==
    \/ start
    \/ Program
    \/ \E lines \in ImportBatches : import(lines)
    \/ tick(TickSec)
    \/ crash_restart

Spec == Init /\ [][Next]_vars

\* The engine with every operator command (Start, Pause, Resume, Stop) issued
\* at any moment, also while a send is in flight, over one recipient: sends
\* nest up to MaxDepth deep, all of them for that recipient.
NextCommands ==
    \/ start
    \/ pause
    \/ resume
    \/ stop
    \/ Program
    \/ import(SoloBatch)
    \/ tick(TickSec)
    \/ crash_restart

SpecCommands == Init /\ [][NextCommands]_vars

\* The engine driven by Start alone over one recipient, with the store's
\* force_retry, which no handler of the repository calls, driven by hand
NextManual ==
    \/ start
    \/ Program
    \/ import(SoloBatch)
    \/ tick(TickSec)
    \/ crash_restart
    \/ \E uid_id \in 1..Len(uids) : manual_force_retry(uid_id)

SpecManual == Init /\ [][NextManual]_vars

\* The engine driven by Start alone over one recipient, under the scheduling
\* of the Qt event loop: a handler whose timer is due, whose page event has
\* arrived or whose loop was told to quit does run, and time passes.  Nothing
\* obliges the operator to press Start or the process to die.
NextFair ==
    \/ start
    \/ Program
    \/ import(SoloBatch)
    \/ tick(TickSec)
    \/ crash_restart

FairSpec ==
    Init /\ [][NextFair]_vars /\ WF_vars(Program) /\ WF_vars(tick(TickSec))

\* Spec with the send taken as a whole: it returns any result of SendResults,
\* also those the worker of the repository never produces.
NextAnySend ==
    \/ start
    \/ tick_cooldown
    \/ process_next_uid
    \/ \E result \in SendResults : send_returns(result)
    \/ \E lines \in ImportBatches : import(lines)
    \/ tick(TickSec)
    \/ crash_restart

SpecAnySend == Init /\ [][NextAnySend]_vars

\* The engine driven by Start alone over one recipient, with sends that may
\* raise an exception instead of returning a result.
NextRaise ==
    \/ start
    \/ Program
    \/ send_raises
    \/ import(SoloBatch)
    \/ tick(TickSec)
    \/ crash_restart

SpecRaise == Init /\ [][NextRaise]_vars

\* The engine driven by Start alone over one recipient, every send failing
\* with some reason of Reasons.
NextClassify ==
    \/ start
    \/ tick_cooldown
    \/ process_next_uid
    \/ \E reason \in Reasons : send_fails(reason)
    \/ import(SoloBatch)
    \/ tick(TickSec)
    \/ crash_restart

SpecClassify == Init /\ [][NextClassify]_vars

\* Two processes leasing from the one database, statement by statement, and
\* storing results; lines are imported and time passes between transactions.
NextLease ==
    \/ \E c \in Callers : lease_call(c)
    \/ \E c \in Callers : lease_step(c)
    \/ \E c \in Callers : lease_returns(c)
    \/ \E c \in Callers : lease_busy(c)
    \/ \E c \in Callers, result \in SendResults : lease_completed(c, result)
    \/ \E lines \in ImportBatches : lease_tx.owner = None /\ import(lines)
    \/ lease_tx.owner = None /\ tick(TickSec)

SpecLease == Init /\ [][NextLease]_vars

\* SpecAnySend with the operator shown the report of every import.
NextReimport ==
    \/ start
    \/ tick_cooldown
    \/ process_next_uid
    \/ \E result \in SendResults : send_returns(result)
    \/ \E lines \in ImportBatches : import_reported(lines)
    \/ tick(TickSec)
    \/ crash_restart

SpecReimport == Init /\ [][NextReimport]_vars

\* Imports of any text of TextBatches, one after the other.
NextImport ==
    \/ \E lines \in TextBatches : import_reported(lines)

SpecImport == Init /\ [][NextImport]_vars

\* Spec with the send taken as a whole and _handle_result taken in its two
\* database steps, between which the process may die.
NextTorn ==
    \/ start
    \/ tick_cooldown
    \/ process_next_uid
    \/ \E result \in SendResults : complete_stored(result)
    \/ counters_charged
    \/ \E lines \in ImportBatches : import(lines)
    \/ tick(TickSec)
    \/ crash_restart

SpecTorn == Init /\ [][NextTorn]_vars

\* The engine driven by Start alone, with a send that always returns, under
\* the scheduling of the Qt event loop: a due iteration runs, the send in
\* flight returns, and time passes.  The process does not die.
NextFairSend ==
    \/ start
    \/ tick_cooldown
    \/ process_next_uid
    \/ \E result \in SendResults : send_returns(result)
    \/ \E lines \in ImportBatches : import(lines)
    \/ tick(TickSec)

FairSendSpec ==
    /\ Init /\ [][NextFairSend]_vars
    /\ WF_vars(process_next_uid)
    /\ WF_vars(\E result \in SendResults : send_returns(result))
    /\ WF_vars(tick(TickSec))

\* The engine of a profile with SteppedRetrySettings over one recipient, with
\* Start and Pause issued at any moment, also while a send is in flight.
NextBackoff ==
    \/ start
    \/ pause
    \/ Program
    \/ import(SoloBatch)
    \/ tick(TickSec)
    \/ crash_restart

SpecBackoff == InitStepped /\ [][NextBackoff]_vars

\* Spec with the send taken as a whole, over local midnights and changes of
\* the profile's daily limit.
NextDays ==
    \/ start
    \/ tick_cooldown
    \/ process_next_uid
    \/ \E result \in SendResults : send_returns(result)
    \/ \E lines \in ImportBatches : import(lines)
    \/ tick(TickSec)
    \/ crash_restart
    \/ midnight
    \/ \E limit \in 1..MaxDailyLimit : set_daily_limit(limit)

SpecDays == Init /\ [][NextDays]_vars

-----------------------------------------------------------------------------
(* Properties *)

\* recipients whose stored status is IN_PROGRESS
InProgressIds == {i \in 1..Len(uids) : uids[i].status = STATUS_IN_PROGRESS}

\* the typing script of frame i delivers the message in this step
Delivers(i) ==
    /\ i \in 1..Len(stack) /\ Len(stack') = Len(stack)
    /\ stack[i].script = "running" /\ stack'[i].script = "ok"

\* C1: in every reachable state at most one recipient of the profile has
\* status IN_PROGRESS.
C1_AtMostOneInProgress == Cardinality(InProgressIds) <= 1

\* C2: the message is delivered at most once per recipient: no send delivers
\* to a recipient whose message was already delivered.
C2_DeliveredAtMostOnce ==
    [][\A i \in 1..Len(stack) : Delivers(i) => stack[i].uid_id \notin delivered]_vars

\* C3: a recipient that was once SUCCESS or FAIL_PERM is never leased again:
\* it is never IN_PROGRESS afterwards.
C3_TerminalNeverLeased ==
    \A i \in was_terminal : uids[i].status # STATUS_IN_PROGRESS

\* the status changes of the state machine: lease, completion, recovery
AllowedStatusChanges ==
    {<<STATUS_FRESH, STATUS_IN_PROGRESS>>, <<STATUS_FAIL_RETRYABLE, STATUS_IN_PROGRESS>>,
     <<STATUS_IN_PROGRESS, STATUS_SUCCESS>>, <<STATUS_IN_PROGRESS, STATUS_FAIL_RETRYABLE>>,
     <<STATUS_IN_PROGRESS, STATUS_FAIL_PERM>>}

\* this step appends an event of the given type to recipient i's log
Appends(i, event_type) ==
    /\ Len(uid_events'[i]) = Len(uid_events[i]) + 1
    /\ uid_events'[i][Len(uid_events'[i])] = event_type

\* C4: every change of a recipient's status is a lease, a completion or a
\* recovery of the state machine, and a completion is only written to a
\* recipient that is IN_PROGRESS at that moment.
C4_StatusStateMachine ==
    [][\A i \in 1..Len(uids) :
          /\ uids'[i].status # uids[i].status
                => <<uids[i].status, uids'[i].status>> \in AllowedStatusChanges
          /\ Appends(i, "RESULT") => uids[i].status = STATUS_IN_PROGRESS]_vars

\* the number of events of the given type in recipient i's log
CountEvents(i, event_type) ==
    Cardinality({k \in 1..Len(uid_events[i]) : uid_events[i][k] = event_type})

\* this step leases recipient i: START is logged and a send for it begins, on
\* the counter the lease has already stored
Leases(i) ==
    /\ Appends(i, "START")
    /\ uids'[i].status = STATUS_IN_PROGRESS
    /\ Len(stack') = Len(stack) + 1
    /\ stack'[Len(stack')] = NewFrame(i, uids'[i].attempts)
    /\ delivered' = delivered

\* C5: attempts changes only by a lease, which adds exactly 1 before the send
\* begins, and by force_retry, which subtracts 1 but not below 0; every other
\* step leaves it unchanged, and without force_retry attempts equals the
\* number of START events of the recipient.
C5_AttemptsCountLeases ==
    /\ [](\A i \in 1..Len(uids) :
             CountEvents(i, "RETRY_SCHEDULED") = 0
                => uids[i].attempts = CountEvents(i, "START"))
    /\ [][\A i \in 1..Len(uids) :
             \/ /\ Leases(i)
                /\ uids'[i].attempts = uids[i].attempts + 1
             \/ /\ Appends(i, "RETRY_SCHEDULED")
                /\ uids'[i].attempts = Max(uids[i].attempts - 1, 0)
             \/ /\ ~Appends(i, "START") /\ ~Appends(i, "RETRY_SCHEDULED")
                /\ uids'[i].attempts = uids[i].attempts]_vars

\* C5 witness: a recipient leased twice with a force_retry in between, which
\* took one attempt off
C5_Witness ==
    \E i \in 1..Len(uids) :
        /\ CountEvents(i, "START") = 2
        /\ CountEvents(i, "RETRY_SCHEDULED") = 1
        /\ uids[i].attempts = 1
        /\ uids[i].status = STATUS_IN_PROGRESS

\* every lease of recipient i so far was closed by a send result, none by a
\* recovery or a force_retry
OnlyResults(i) ==
    CountEvents(i, "RECOVERED") = 0 /\ CountEvents(i, "RETRY_SCHEDULED") = 0

\* C6: a recipient whose send failed retryably on each of retry_max_attempts
\* leases is, from the last of them on, FAIL_PERM with last_error_code
\* MAX_ATTEMPTS, and is not leased again.
C6_ExhaustionIsMaxAttempts ==
    \A i \in 1..Len(uids) :
        OnlyResults(i) =>
            /\ CountEvents(i, "START") <= retry_max_attempts
            /\ (CountEvents(i, "RESULT") = retry_max_attempts
                   /\ uids[i].status # STATUS_SUCCESS)
                 => /\ uids[i].status = STATUS_FAIL_PERM
                    /\ uids[i].last_error_code = Some("MAX_ATTEMPTS")

\* what is left of today's quota, from the stored counters
QuotaLeft ==
    LET row == daily_counters[today]
        used == IF row = None THEN 0 ELSE Get(row).sent_success + Get(row).sent_fail
    IN  Max(0, daily_limit - used)

\* this step consumes the due delay_timer of a RUNNING engine and leaves the
\* engine RUNNING or PAUSED: a loop iteration that found recipients or no
\* quota, or a pause()
IterationRuns ==
    /\ state = "RUNNING" /\ delay_timer = Some(0)
    /\ delay_timer' = None /\ state' \in {"RUNNING", "PAUSED"}

\* C7: every lease is taken in an iteration whose quota computation gave
\* remaining > 0; an iteration that finds remaining 0 takes no lease and
\* changes no recipient.
C7_LeaseNeedsQuota ==
    [][/\ \A i \in 1..Len(uids) : Appends(i, "START") => QuotaLeft > 0
       /\ (IterationRuns /\ QuotaLeft = 0)
             => /\ uids' = uids /\ uid_events' = uid_events /\ stack' = stack
                /\ state' = "PAUSED"]_vars

\* C7 witness: the loop has paused on an exhausted quota while a recipient
\* was waiting to be leased
C7_Witness ==
    /\ state = "PAUSED" /\ state_reason = Some("limit") /\ delay_timer = None
    /\ QuotaLeft = 0
    /\ \E i \in 1..Len(uids) : Eligible(uids[i])

\* today's stored counter of the given kind, 0 while the row does not exist
SentToday(dc, kind) ==
    IF dc[today] = None THEN 0
    ELSE IF kind = "success" THEN Get(dc[today]).sent_success
    ELSE Get(dc[today]).sent_fail

StaleInProgress(i) ==
    /\ uids[i].status = STATUS_IN_PROGRESS
    /\ \/ uids[i].heartbeat_at = None
       \/ Now - Get(uids[i].heartbeat_at) > stale_after_seconds

\* this step is start(): the engine enters RUNNING and recover_stale has run
StartRuns == state # "RUNNING" /\ state' = "RUNNING"

\* C9: recover_stale leaves every stale IN_PROGRESS recipient FAIL_RETRYABLE
\* with last_error_code ENGINE_CRASH, next_attempt_after cleared and a
\* RECOVERED event appended, eligible for the very next lease; every other
\* recipient is left unchanged.
C9_RecoverStale ==
    [][StartRuns => \A i \in 1..Len(uids) :
          IF StaleInProgress(i)
          THEN /\ uids'[i].status = STATUS_FAIL_RETRYABLE
               /\ uids'[i].last_error_code = Some("ENGINE_CRASH")
               /\ uids'[i].next_attempt_after = None
               /\ uids'[i].attempts = uids[i].attempts
               /\ Appends(i, "RECOVERED")
               /\ Eligible(uids'[i])
          ELSE uids'[i] = uids[i] /\ uid_events'[i] = uid_events[i]]_vars

\* C9 witness: start() has just recovered one recipient and left alone another
\* whose heartbeat is exactly as old as the threshold
C9_Witness ==
    /\ state = "RUNNING" /\ delay_timer = Some(0)
    /\ \E i, j \in 1..Len(uids) :
          /\ uids[i].status = STATUS_FAIL_RETRYABLE
          /\ uids[i].last_error_code = Some("ENGINE_CRASH")
          /\ uid_events[i][Len(uid_events[i])] = "RECOVERED"
          /\ uids[j].status = STATUS_IN_PROGRESS
          /\ uids[j].heartbeat_at = Some(Now - stale_after_seconds)

\* recipient i exists and is IN_PROGRESS
InProgress(i) == i \in InProgressIds

\* recipient i was left IN_PROGRESS by a process that died, and the engine
\* has been started again: no send is in flight, the engine is RUNNING
OrphanAfterRestart(i) == InProgress(i) /\ stack = <<>> /\ state = "RUNNING"

\* C10: a recipient that was IN_PROGRESS when the process died eventually
\* leaves IN_PROGRESS once the engine is started again.
C10_OrphanEventuallyLeaves ==
    \A i \in 1..MaxUids :
        OrphanAfterRestart(i) ~> ~InProgress(i)

\* C11: when the send raises an unexpected exception the engine completes the
\* leased recipient as FAIL_RETRYABLE with error code WORKER_EXCEPTION and
\* schedules its next iteration: the recipient is not left IN_PROGRESS and
\* the engine is not left RUNNING with nothing scheduled.
C11_ExceptionIsRetryable ==
    [][send_raises =>
          LET uid_id == stack[Top].uid_id
          IN  /\ uids'[uid_id].status = STATUS_FAIL_RETRYABLE
              /\ uids'[uid_id].last_error_code = Some("WORKER_EXCEPTION")
              /\ state' = "RUNNING" /\ delay_timer' # None]_vars

\* C12: whenever the loop moves the engine from RUNNING to IDLE the queue is
\* drained: no recipient is FRESH or FAIL_RETRYABLE at that moment, a
\* FAIL_RETRYABLE recipient whose backoff has not expired included.
C12_IdleMeansDrained ==
    [][(process_next_uid /\ state = "RUNNING" /\ state' = "IDLE")
          => \A i \in 1..Len(uids') :
                uids'[i].status \notin {STATUS_FRESH, STATUS_FAIL_RETRYABLE}]_vars

\* recipient i is FAIL_RETRYABLE and its backoff has not expired
BackoffPending(i) ==
    /\ uids[i].status = STATUS_FAIL_RETRYABLE
    /\ uids[i].next_attempt_after # None
    /\ Get(uids[i].next_attempt_after) > Now

\* recipient i is FAIL_RETRYABLE with no backoff or an expired one
RetryDue(i) == uids[i].status = STATUS_FAIL_RETRYABLE /\ ~BackoffPending(i)

\* C13: no lease returns a FAIL_RETRYABLE recipient whose next_attempt_after
\* is later than now, and once now >= next_attempt_after the recipient is
\* leasable again: an iteration with quota that finds such recipients leases
\* one of them.
C13_BackoffRespected ==
    [][/\ \A i \in 1..Len(uids) : Appends(i, "START") => ~BackoffPending(i)
       /\ (/\ process_next_uid /\ state = "RUNNING" /\ QuotaLeft > 0
           /\ \E i \in 1..Len(uids) : RetryDue(i))
             => \E i \in 1..Len(uids) : RetryDue(i) /\ Leases(i)]_vars

\* C13 witness: a lease has just passed over a recipient whose backoff is
\* pending and taken another one, and earlier a recipient whose backoff had
\* expired was leased a second time
C13_Witness ==
    \E i, j \in 1..Len(uids) :
        /\ BackoffPending(i)
        /\ uids[j].status = STATUS_IN_PROGRESS /\ uids[j].heartbeat_at = Some(Now)
        /\ uids[j].attempts = 2 /\ OnlyResults(j)

\* recipient i may be leased now: FRESH, or FAIL_RETRYABLE with no pending backoff
Leasable(i) == uids[i].status = STATUS_FRESH \/ RetryDue(i)

\* C14: an iteration with quota gets None from the lease, and goes IDLE,
\* exactly when no recipient is eligible; otherwise it leases an eligible
\* recipient, a FAIL_RETRYABLE one whenever one is eligible, and among the
\* eligible recipients of that class one with the smallest first_seen_at.
C14_LeaseOrder ==
    [][(process_next_uid /\ state = "RUNNING" /\ QuotaLeft > 0) =>
          /\ (state' = "IDLE") <=> ~(\E i \in 1..Len(uids) : Leasable(i))
          /\ (\E i \in 1..Len(uids) : Leasable(i))
                => \E i \in 1..Len(uids) : Leases(i)
          /\ \A i \in 1..Len(uids) : Leases(i) =>
                /\ Leasable(i)
                /\ (\E j \in 1..Len(uids) : RetryDue(j)) => RetryDue(i)
                /\ \A j \in 1..Len(uids) :
                      (Leasable(j) /\ uids[j].status = uids[i].status)
                         => uids[i].first_seen_at <= uids[j].first_seen_at]_vars

\* C14 witness: a FAIL_RETRYABLE recipient has just been leased again while a
\* FRESH recipient imported no later than it is still waiting
C14_Witness ==
    \E i, j \in 1..Len(uids) :
        /\ uids[i].status = STATUS_FRESH
        /\ uids[j].status = STATUS_IN_PROGRESS /\ uids[j].heartbeat_at = Some(Now)
        /\ uids[j].attempts = 2 /\ OnlyResults(j)
        /\ uids[i].first_seen_at <= uids[j].first_seen_at

\* C15: at every retryable failure of a recipient the delay stored,
\* next_attempt_after - now, is min(cap, base_backoff * 2^(attempts-1)) for
\* the recipient's attempts; it is not smaller than the delay of the
\* recipient's previous retryable failure and never exceeds the cap.
C15_BackoffGrows ==
    [][\A i \in 1..Len(uids) :
          (Appends(i, "RESULT") /\ uids'[i].status = STATUS_FAIL_RETRYABLE) =>
             LET delay == Get(uids'[i].next_attempt_after) - Now
             IN  /\ delay = Min(BackoffCap, retry_backoff_sec * Pow2(uids[i].attempts - 1))
                 /\ delay <= BackoffCap
                 /\ last_backoff[i] # None => delay >= Get(last_backoff[i])]_vars

\* C16: within one calendar day and with daily_limit unchanged, remaining
\* never increases: the day's sent_success and sent_fail never decrease, and
\* remaining = max(0, daily_limit - (sent_success + sent_fail)) is never
\* negative.
C16_QuotaMonotone ==
    /\ [](remaining_today(daily_counters, today) >= 0)
    /\ [][(today' = today /\ daily_limit' = daily_limit) =>
             /\ SentToday(daily_counters', "success") >= SentToday(daily_counters, "success")
             /\ SentToday(daily_counters', "fail") >= SentToday(daily_counters, "fail")
             /\ remaining_today(daily_counters, today)' <= remaining_today(daily_counters, today)
          ]_vars

\* C16 witness: two completions of the same day, one of each kind, have
\* brought remaining from the daily limit down to 0
C16_Witness ==
    /\ daily_limit = 2 /\ today = 0
    /\ SentToday(daily_counters, "success") = 1
    /\ SentToday(daily_counters, "fail") = 1
    /\ remaining_today(daily_counters, today) = 0

\* the counter row of a day on which nothing was sent
ZeroCounters == [sent_success |-> 0, sent_fail |-> 0]

C18_LimitHasOwnState ==
    [][(process_next_uid /\ state = "RUNNING" /\ QuotaLeft = 0)
          => state' = "PAUSED_LIMIT" /\ state' # "PAUSED"]_vars

\* C19: the engine state changes only along these transitions: start from
\* IDLE to RUNNING; the loop from RUNNING to IDLE or PAUSED_LIMIT; pause from
\* RUNNING to PAUSED; resume from PAUSED or PAUSED_LIMIT to RUNNING; stop
\* from any state to STOPPED.  (A restart of the process begins a new engine.)
C19_EngineTransitions ==
    [][state' # state =>
          \/ start /\ state = "IDLE" /\ state' = "RUNNING"
          \/ process_next_uid /\ state = "RUNNING" /\ state' \in {"IDLE", "PAUSED_LIMIT"}
          \/ pause /\ state = "RUNNING" /\ state' = "PAUSED"
          \/ resume /\ state \in {"PAUSED", "PAUSED_LIMIT"} /\ state' = "RUNNING"
          \/ stop /\ state' = "STOPPED"
          \/ crash_restart]_vars

\* C20: every entry into RUNNING, by start or by resume, runs recover_stale
\* before the first lease of that run: as the engine enters RUNNING every
\* stale IN_PROGRESS recipient is put back to FAIL_RETRYABLE with a RECOVERED
\* event.
C20_RecoverOnEveryEntry ==
    [][(state # "RUNNING" /\ state' = "RUNNING") =>
          \A i \in 1..Len(uids) : StaleInProgress(i) =>
              uids'[i].status = STATUS_FAIL_RETRYABLE /\ Appends(i, "RECOVERED")]_vars

\* the engine was paused or stopped by the user and not started or resumed since
UserHalted == state = "STOPPED" \/ (state = "PAUSED" /\ state_reason = Some("user"))

\* C21: after pause() or stop(), and until the next start() or resume(), no
\* loop iteration and no countdown tick is pending, also when a send that
\* was in flight at the pause or stop completes afterwards.
C21_HaltCancelsTimers ==
    UserHalted => delay_timer = None /\ ~cooldown_timer

\* the send of frame i is resolved: on_complete or on_timeout has fired
Resolved(i) ==
    stack[i].phase = "automation" /\ stack[i].result_holder.success # None

\* C22: the send timeout and the completion callback of one send may fire in
\* either order, and the result of the send is that of whichever fired
\* first: once a send is resolved, no later event changes the result it
\* will return.
C22_FirstResolutionWins ==
    [][\A i \in 1..Len(stack) :
          (/\ Resolved(i)
           /\ Len(stack') >= i /\ stack'[i].phase = "automation")
             => result_of(stack'[i].result_holder)
                  = result_of(stack[i].result_holder)]_vars

\* the automation of the innermost send gave up without ever finding the
\* message input box: no typing script was run and its timer is stopped
NeverFoundInput ==
    /\ stack # <<>> /\ stack[Top].phase = "automation"
    /\ stack[Top].script = "none" /\ ~stack[Top].auto_timer

\* the innermost send ends in its page load wait without a loaded page
LoadTimedOut ==
    /\ stack # <<>> /\ stack[Top].phase = "page_load" /\ ~stack[Top].success_flag

\* C23: a send whose automation never found the message input box within
\* its attempt cap resolves to the permanent failure (FAIL_PERM,
\* UI_NOT_FOUND), and a send that only timed out waiting for the page
\* resolves to a retryable failure (NAV_TIMEOUT).
C23_NoInputIsPermanent ==
    [][loop_return =>
          /\ NeverFoundInput =>
                /\ uids'[stack[Top].uid_id].status = STATUS_FAIL_PERM
                /\ uids'[stack[Top].uid_id].last_error_code = Some("UI_NOT_FOUND")
          /\ LoadTimedOut =>
                /\ uids'[stack[Top].uid_id].last_error_code = Some("NAV_TIMEOUT")
                /\ stack[Top].attempts < retry_max_attempts
                      => uids'[stack[Top].uid_id].status = STATUS_FAIL_RETRYABLE]_vars

\* C24: the classifier gives every reason exactly one of the four failure
\* pairs, never SUCCESS; the same reason always gets the same pair; and the
\* pair is FAIL_PERM exactly when the reason names the composer or the message
\* input box, in any letter case and whatever other tokens it contains.
FailurePairs ==
    {SendResult(STATUS_FAIL_PERM, Some("UI_NOT_FOUND")),
     SendResult(STATUS_FAIL_RETRYABLE, Some("NAV_TIMEOUT")),
     SendResult(STATUS_FAIL_RETRYABLE, Some("AUTH_REQUIRED")),
     SendResult(STATUS_FAIL_RETRYABLE, Some("UNKNOWN"))}

ReasonsNamingInput == {REASON.composer, REASON.input_and_timeout, REASON.login_and_box}

C24_ClassifierTotal ==
    /\ [](classified # None =>
            /\ Get(classified).result \in FailurePairs
            /\ Get(classified).result.status # STATUS_SUCCESS
            /\ (Get(classified).result.status = STATUS_FAIL_PERM
                  <=> Get(classified).reason \in ReasonsNamingInput))
    /\ [][(classified # None /\ classified' # None
             /\ Get(classified').reason = Get(classified).reason)
            => Get(classified').result = Get(classified).result]_vars

\* a reason naming both the input box and a timeout was classified permanent
C24_Witness ==
    /\ classified # None
    /\ Get(classified).reason = REASON.input_and_timeout
    /\ Get(classified).result = SendResult(STATUS_FAIL_PERM, Some("UI_NOT_FOUND"))

\* C25: two callers never hold a lease on the same recipient; and whoever
\* reads the tables sees a lease whole or not at all: a recipient turns
\* IN_PROGRESS together with its attempts raised by one and its START event.
LeaseHeld(c) == lease_tx.call[c].held

C25_LeaseAtomic ==
    /\ [](\A c1, c2 \in Callers :
            (c1 # c2 /\ LeaseHeld(c1) # None) => LeaseHeld(c1) # LeaseHeld(c2))
    /\ [](\A i \in 1..Len(uids) :
            uids[i].status = STATUS_IN_PROGRESS
              => /\ uids[i].attempts >= 1
                 /\ uid_events[i][Len(uid_events[i])] = "START")
    /\ [][\A i \in 1..Len(uids) :
            (uids[i].status # STATUS_IN_PROGRESS /\ uids'[i].status = STATUS_IN_PROGRESS)
              => /\ uids'[i].attempts = uids[i].attempts + 1
                 /\ uid_events'[i] = Append(uid_events[i], "START")]_vars

\* one caller is inside its transaction with the row updated but not yet
\* committed, the other caller has called and waits, and the committed row is
\* still as before the lease
C25_Witness ==
    /\ lease_tx.owner = Some(1)
    /\ lease_tx.call[1].row # None
    /\ lease_tx.w_uids[Get(lease_tx.call[1].row).id].status = STATUS_IN_PROGRESS
    /\ uids[Get(lease_tx.call[1].row).id].status \in {STATUS_FRESH, STATUS_FAIL_RETRYABLE}
    /\ lease_tx.call[2].pc = 1

\* C26: no two recipients share a normalized key; and an import leaves every
\* existing row and its events as they were and adds one row, with one
\* event, for each line whose key is new: a line whose key exists adds
\* nothing.  The lines of ImportBatches are digit strings, their own keys.
KeyExists(key) == \E i \in 1..Len(uids) : uids[i].normalized_uid = key

C26_DuplicateImportRejected ==
    /\ [](\A i, j \in 1..Len(uids) :
            i # j => uids[i].normalized_uid # uids[j].normalized_uid)
    /\ [][\A lines \in ImportBatches :
            import_reported(lines)
              => /\ \A i \in 1..Len(uids) :
                       uids'[i] = uids[i] /\ uid_events'[i] = uid_events[i]
                 /\ Len(uids') = Len(uids)
                       + Cardinality({k \in 1..Len(lines) : ~KeyExists(lines[k])})
                 /\ Len(uid_events') = Len(uids')
                 /\ \A i \in (Len(uids) + 1)..Len(uids') : Len(uid_events'[i]) = 1]_vars

\* an import found only keys that exist, and a recipient already sent to
\* is still SUCCESS with its one attempt
C26_Witness ==
    /\ report # None
    /\ Get(report).added = 0
    /\ Get(report).duplicates >= 1
    /\ \E i \in 1..Len(uids) : uids[i].status = STATUS_SUCCESS /\ uids[i].attempts = 1

\* C27: importing one valid line whose recipient was imported before, in the
\* same or in another spelling of its key, reports added = 0 and
\* duplicates = 1 and leaves the tables as they were.
SpellingsOfOne == {LINE.id, LINE.id_spaced, LINE.profile_url}

ImportedBefore(line) ==
    \E i \in 1..Len(uids) :
        IF line \in SpellingsOfOne THEN uids[i].raw_input \in {LINE.id, LINE.profile_url}
        ELSE uids[i].raw_input \in {LINE.id_long, LINE.profile_url_https}

C27_ReimportIsDuplicate ==
    [][\A line \in SpellingsOfOne \cup {LINE.id_long, LINE.profile_url_https} :
          (ImportedBefore(line) /\ import_reported(<<line>>))
            => /\ Get(report').added = 0
               /\ Get(report').duplicates = 1
               /\ Get(report').invalid = <<>>
               /\ uids' = uids
               /\ uid_events' = uid_events]_vars

\* the recipient imported as a profile URL was imported again as a padded
\* number, and the import was reported as one duplicate
C27_Witness ==
    /\ Len(uids) = 1
    /\ uids[1].raw_input = LINE.profile_url
    /\ report # None
    /\ Get(report).lines = <<LINE.id_spaced>>
    /\ Get(report).added = 0
    /\ Get(report).duplicates = 1

\* C28: the report of an import is exact: added + duplicates + the number
\* of invalid entries is the number of imported lines that are neither blank
\* nor a '#' comment.
BlankLine(line) == Strip(line) = <<>>
CommentLine(line) == StartsWith(Strip(line), <<"#">>)

CountedLines(lines) ==
    Cardinality({k \in 1..Len(lines) : ~BlankLine(lines[k]) /\ ~CommentLine(lines[k])})

C28_ReportIsExact ==
    report # None
      => Get(report).added + Get(report).duplicates + Len(Get(report).invalid)
           = CountedLines(Get(report).lines)

\* C29: a line beginning with '#' is ignored, whatever follows the '#': an
\* import of comment lines alone creates no recipient and counts nothing as
\* added, duplicate or invalid.
C29_CommentIgnored ==
    (/\ report # None
     /\ \A k \in 1..Len(Get(report).lines) : CommentLine(Get(report).lines[k]))
      => /\ Get(report).added = 0
         /\ Get(report).duplicates = 0
         /\ Get(report).invalid = <<>>

\* C30: a string of digits is its own key, leading zeros included; a profile
\* URL with id=<digits> has those digits as its key; a profile URL whose id
\* is not all digits is rejected.  Seen on the import of the line alone: a
\* new key gets a row with that key, an existing key counts as duplicate, a
\* rejected line is listed as invalid and gets no row.
ExpectedKey ==
    (LINE.id :> LINE.id) @@ (LINE.id_long :> LINE.id_long)
      @@ (LINE.profile_url :> <<"1">>) @@ (LINE.profile_url_https :> <<"0", "0", "7">>)

C30_NormalizeDigitsAndProfileUrls ==
    [][/\ \A line \in DOMAIN ExpectedKey :
             import_reported(<<line>>)
               => /\ Get(report').invalid = <<>>
                  /\ IF KeyExists(ExpectedKey[line])
                     THEN Get(report').duplicates = 1 /\ uids' = uids
                     ELSE /\ Get(report').added = 1
                          /\ Len(uids') = Len(uids) + 1
                          /\ uids'[Len(uids')].normalized_uid = ExpectedKey[line]
                          /\ uids'[Len(uids')].raw_input = line
       /\ import_reported(<<LINE.profile_url_bad>>)
             => /\ uids' = uids
                /\ Get(report').added = 0
                /\ Get(report').duplicates = 0
                /\ Len(Get(report').invalid) = 1
                /\ Get(report').invalid[1][1] = LINE.profile_url_bad]_vars

\* the digits with leading zeros and a profile URL were imported as the keys
\* 007 and 1, and the profile URL with id=1x was then rejected
C30_Witness ==
    /\ Len(uids) = 2
    /\ uids[1].raw_input = LINE.id_long /\ uids[1].normalized_uid = LINE.id_long
    /\ uids[2].raw_input = LINE.profile_url /\ uids[2].normalized_uid = <<"1">>
    /\ report # None
    /\ Get(report).lines = <<LINE.profile_url_bad>>
    /\ Len(Get(report).invalid) = 1

\* recipients a send is in flight for
InFlightIds == {stack[k].uid_id : k \in 1..Len(stack)}

\* C31: after stop() is called while a send is in flight, the recipient of
\* that send keeps its stored status and the daily counters keep their
\* values for as long as the engine stays STOPPED: nothing but the
\* recover_stale pass of a later start() touches the recipient.
C31_StopLeavesInProgress ==
    [][(state = "STOPPED" /\ state' = "STOPPED" /\ stack # <<>>)
         => /\ \A i \in InFlightIds : uids'[i].status = uids[i].status
            /\ daily_counters' = daily_counters]_vars

\* C32: a recover_stale pass never resets a recipient whose send is still
\* running in this engine, however long the send has been running.
C32_RunningSendNotRecovered ==
    [][StartRuns => \A i \in InFlightIds :
          uids[i].status = STATUS_IN_PROGRESS
            => uids'[i].status = STATUS_IN_PROGRESS]_vars

\* C33: at most one loop iteration is pending at any time: delay_timer holds
\* no more than one deadline, whichever of start, resume and the completion
\* branches scheduled last.
C33_OneIterationPending == Cardinality(delay_timer) <= 1

\* an iteration is pending while a send is in flight in a RUNNING engine: it
\* was scheduled by start() or resume() during the send, and the completion
\* of the send will schedule again
C33_Witness ==
    /\ state = "RUNNING"
    /\ stack # <<>>
    /\ delay_timer # None

\* C34: with the daily limit unchanged, the sends charged to a day
\* (sent_success + sent_fail) never exceed daily_limit.
C34_QuotaNeverExceeded ==
    \A d \in Days :
        daily_counters[d] # None
          => Get(daily_counters[d]).sent_success + Get(daily_counters[d]).sent_fail
               <= daily_limit

C36_CountersMatchCompletions ==
    stack = <<>>
      => SentToday(daily_counters, "success") + SentToday(daily_counters, "fail")
           = Cardinality(TerminalIds(uids))

\* C37: with the settings fixed and no force_retry, no recipient's attempts
\* counter exceeds retry_max_attempts.
C37_AttemptsBounded ==
    \A i \in 1..Len(uids) : uids[i].attempts <= retry_max_attempts

\* C38: with sends that always return and no crash, a RUNNING engine
\* eventually leaves RUNNING: it goes IDLE or pauses on the quota.
C38_EngineComesToRest == (state = "RUNNING") ~> (state # "RUNNING")

\* the engine has come to rest with every recipient terminal, one of them
\* after its last allowed attempt
C38_Witness ==
    /\ state \in {"IDLE", "PAUSED"}
    /\ stack = <<>>
    /\ delay_timer = None
    /\ uids # <<>>
    /\ \A i \in 1..Len(uids) : uids[i].status \in TERMINAL_STATUSES
    /\ \E i \in 1..Len(uids) :
          uids[i].status = STATUS_FAIL_PERM /\ uids[i].attempts = retry_max_attempts

\* C39: a recipient is leased and a send begins only in a step taken with the
\* engine RUNNING, and an iteration that fires while the engine is not
\* RUNNING changes no recipient, no event log, no counter and starts no send.
C39_LeaseOnlyWhileRunning ==
    [][/\ \A i \in 1..Len(uids) : Appends(i, "START") => state = "RUNNING"
       /\ Len(stack') > Len(stack) => state = "RUNNING"
       /\ (process_next_uid /\ state # "RUNNING") =>
              /\ UNCHANGED <<uids, uid_events, daily_counters, stack>>
              /\ state' = state]_vars

\* an iteration is due after pause() or stop(), with quota left and a
\* recipient the lease would take
C39_Witness ==
    /\ UserHalted
    /\ delay_timer # None /\ Get(delay_timer) <= 0
    /\ QuotaLeft > 0
    /\ \E i \in 1..Len(uids) : Leasable(i)

\* the leases of recipient i that an event has closed
ClosedLeases(i) == CountEvents(i, "RESULT") + CountEvents(i, "RECOVERED")

\* C40: the event log of every recipient starts with QUEUE, and its RESULT
\* and RECOVERED events together number at most its START events and at
\* least its START events minus one.
C40_EventLogBrackets ==
    \A i \in 1..Len(uids) :
        /\ uid_events[i] # <<>>
        /\ uid_events[i][1] = "QUEUE"
        /\ ClosedLeases(i) <= CountEvents(i, "START")
        /\ ClosedLeases(i) >= CountEvents(i, "START") - 1

=============================================================================
